---- MODULE Spec2Model ----
(***************************************************************************)
(* Debt-collection voice agent: the tool handlers of the agent classes     *)
(* (src/src/agents/DebtCollection.py, src/src/agents/OutboundCaller.py)    *)
(* and the outbound-call coordinator (src/src/caller.py : entrypoint).     *)
(***************************************************************************)
EXTENDS Integers, Sequences, FiniteSets, TLC

\* ------------------------------------------------------------------ bounds
\* Tool invocations the reasoning engine makes on one call.
MaxOps == 3
\* Longest account number / digit string drawn in SpecVerify.
MaxAcctLen == 5
\* Longest list of user inputs handed to test_conversation_flow.
MaxInputs == 3
\* Largest turns argument of have_conversation.
MaxTurns == 5
\* Tool invocations on each of two concurrent calls.
MaxInstanceOps == 2
\* Half-width, in quarter dollars, of the range of debt amounts drawn in
\* SpecMoney around the dispatched amount.
DebtSpread == 12

\* ------------------------------------------------------------ input sets
\* Characters account numbers and supplied digit strings are made of.
Chars == {"4", "9"}

\* Strings (sequences of characters) of length 0..n.
Strings(n) == UNION {[1..k -> Chars] : k \in 0..n}

\* metadata.customer.account_number of the dispatched call, "5033-4329".
DispatchAccount == <<"5", "0", "3", "3", "-", "4", "3", "2", "9">>

\* Digit strings the customer supplies on the dispatched call: the right
\* ones, the first four, a three-character suffix, the whole number, nothing.
DigitInputs ==
    { <<"4", "3", "2", "9">>, <<"5", "0", "3", "3">>, <<"3", "2", "9">>,
      DispatchAccount, <<>> }

\* metadata.dial.transfer_to: a number, the empty string, or None (the
\* environment variable TRANSFER_PHONE_NUMBER unset).
TransferTargets == {"+15550100", "", "None"}

\* metadata.debt.amount of the dispatched call, 150.75, in quarter dollars.
\* Amounts are multiples of 0.25: such floats, their quotients by the months
\* drawn and their percentages are exact or correctly ordered against every
\* half-cent tie, so round() is decided by exact arithmetic.
DispatchDebt == 603

\* Debt amounts (quarter dollars) drawn in SpecMoney.
DebtAmounts == (DispatchDebt - DebtSpread)..(DispatchDebt + DebtSpread)

\* months arguments of payment_plan (default 6); 0 makes the division raise.
Months == {0, 3, 6}

\* settlement_percentage arguments of payment_settlement.
Percentages == {0, 50, 100}

\* The key under which the dispatch metadata carries the number to dial.
DialKeys == {"to", "phone_number"}

\* ---------------------------------------------------------------- state
VARIABLES
    account_number,     \* metadata.customer.account_number
    debt_amount,        \* metadata.debt.amount, in quarter dollars
    transfer_to,        \* metadata.dial.transfer_to
    effects,            \* ordered side effects of the handlers: events logged,
                        \* replies requested, provider requests, error logs
    results,            \* what each tool invocation returned (or that it raised)
    room,               \* the call's room at the provider: "active" | "deleted"
    current_speech,     \* ctx.session.current_speech: "None" | "playing"
    tool,               \* the tool handler suspended at an await, or "idle"
    session,            \* the AgentSession: state of session.start / the session
    pc,                 \* entrypoint's position in caller.py
    dial_key,           \* key of the number in the job's metadata["dial"]
    dial,               \* the outbound dial request (create_sip_participant)
    participant_joined, \* the dialled participant is in the room
    client,             \* agent.client: "None" or the bound participant identity
    shutdown_callbacks, \* the callbacks add_shutdown_callback registered, in order
    shutdown_requested, \* ctx.shutdown() has been called
    error_log,          \* logger.error records of entrypoint
    job,                \* the job context: "running" | "shut_down"
    transcripts,        \* outcomes of save_transcript runs
    \* tests/agent.py : AgentTester.test_conversation_flow
    scenario,           \* the scenario name, as the probe words it contains
    user_inputs,        \* the list of user inputs, each as the probe words it contains
    input_pos,          \* number of inputs the for loop has taken
    agent_responses,    \* results["agent_responses"]
    compliance_checks,  \* results["compliance_checks"]
    errors,             \* results["errors"]
    flow_pc,            \* "idle" | "loop" | "returned"
    \* improve.py : have_conversation
    turns,              \* the turns argument
    round,              \* iterations of `for _ in range(turns)` completed
    speaker,            \* index in agents of the one whose reply is generated
    transcript,         \* the transcript list
    hangup,             \* the test agent's hangup attribute
    dots,               \* parity of the number of "." printed while retrying
    conv_pc,            \* "idle" | "generate_reply" | "returned"
    \* two calls, each with its own agent instance
    instances           \* per call: the instance's metadata, attributes and outputs

callVars == <<account_number, debt_amount, transfer_to, effects, results, room,
              current_speech, tool>>
coordVars == <<pc, dial_key, dial, participant_joined, client,
               shutdown_callbacks, shutdown_requested, error_log>>
flowVars == <<scenario, user_inputs, input_pos, agent_responses,
              compliance_checks, errors, flow_pc>>
convVars == <<turns, round, speaker, transcript, hangup, dots, conv_pc>>
simVars == <<flowVars, convVars, instances>>
agentVars == <<callVars, session, coordVars, job, transcripts>>
vars == <<agentVars, simVars>>

\* ------------------------------------------------------- python helpers
\* Python truthiness of an optional string: None and "" are falsy.
Truthy_is_not_None(s) == s # "None"
Truthy(s) == s # "None" /\ s # ""

\* s[-4:] : the slice from index max(len(s) - 4, 0) to the end.
LastFour_first4(s) == SubSeq(s, 1, IF Len(s) < 4 THEN Len(s) ELSE 4)
LastFour(s) == SubSeq(s, (IF Len(s) > 4 THEN Len(s) - 4 ELSE 0) + 1, Len(s))

\* ------------------------------------------------------------ BaseAgent
\* One entry of the ordered effect log.
Effect(kind, name, acct, data) ==
    [kind |-> kind, name |-> name, account_number |-> acct, data |-> data]

\* BaseAgent._log_event: builds the event record with the call's account
\* number and writes it to the log (logger.info).
_log_event_replace(log, event_type, data) ==
    <<Effect("event", event_type, account_number, data)>>
_log_event_twice(log, event_type, data) ==
    LET event == Effect("event", event_type, account_number, data)
    IN  Append(Append(log, event), event)
_log_event(log, event_type, data) ==
    Append(log, Effect("event", event_type, account_number, data))

\* ctx.session.generate_reply(instructions=...): the request for a spoken
\* reply; the reply becomes the session's current speech.
generate_reply(log, instructions) ==
    Append(log, Effect("reply", instructions, <<>>, {}))

\* A request sent to the provider API (job_ctx.api...).
api_request(log, method, fields) ==
    Append(log, Effect("api", method, <<>>, fields))

\* What a tool invocation hands back to the reasoning engine.
\* quote: the figures formatted into the returned string, <<>> if none.
Outcome(op, args, ret, carries) ==
    [op |-> op, args |-> args, ret |-> ret, carries |-> carries, quote |-> <<>>]

\* round(num / den, 2) in cents, for num / den >= 0: Python rounds to the
\* nearest cent and a tie to the even cent.
round2(num, den) ==
    LET c == (100 * num) \div den
        r == (100 * num) - c * den
    IN  IF 2 * r < den THEN c
        ELSE IF 2 * r > den THEN c + 1
        ELSE IF c % 2 = 0 THEN c ELSE c + 1

\* The reasoning engine may invoke a tool: the session runs, no handler is
\* suspended, and the call has invocations left.
ToolCallable ==
    /\ session = "started"
    /\ tool = "idle"
    /\ Len(results) < MaxOps

\* A handler that logs one event, requests one reply and returns a string
\* formatted from the figures in quote.
LogReplyQuote(op, args, event_type, data, instructions, ret, quote) ==
    /\ ToolCallable
    /\ effects' = generate_reply(_log_event(effects, event_type, data), instructions)
    /\ current_speech' = "playing"
    /\ results' = Append(results,
           [Outcome(op, args, ret, {}) EXCEPT !.quote = quote])
    /\ UNCHANGED <<account_number, debt_amount, transfer_to, room, tool, session,
                   coordVars, simVars, job, transcripts>>

LogReplyReturn_reply_first(op, event_type, data, instructions, ret) ==
    /\ ToolCallable
    /\ effects' = _log_event(generate_reply(effects, instructions), event_type, data)
    /\ current_speech' = "playing"
    /\ results' = Append(results, Outcome(op, <<>>, ret, {}))
    /\ UNCHANGED <<account_number, debt_amount, transfer_to, room, tool, session,
                   coordVars, simVars, job, transcripts>>
\* A handler that logs one event, requests one reply and returns a string.
LogReplyReturn(op, event_type, data, instructions, ret) ==
    /\ ToolCallable
    /\ effects' = generate_reply(_log_event(effects, event_type, data), instructions)
    /\ current_speech' = "playing"
    /\ results' = Append(results, Outcome(op, <<>>, ret, {}))
    /\ UNCHANGED <<account_number, debt_amount, transfer_to, room, tool, session, coordVars, simVars,
                   job, transcripts>>

\* A handler that only hands back an outcome (a refusal, or an exception
\* raised before any side effect).
ReturnOnly(op, ret) ==
    /\ ToolCallable
    /\ results' = Append(results, Outcome(op, <<>>, ret, {}))
    /\ UNCHANGED <<account_number, debt_amount, transfer_to, effects, room, current_speech,
                   tool, session, coordVars, simVars, job, transcripts>>

\* ---------------------------------------------------- VerificationAgent
\* verify_customer_identity: logs the attempt, then compares the supplied
\* digits with account_number[-4:].
verify_customer_identity(last_four_digits) ==
    /\ ToolCallable
    /\ IF last_four_digits = LastFour(account_number)
       THEN /\ effects' = _log_event(effects, "identity_verification",
                                     {"last_four_digits"})
            /\ results' = Append(results,
                   Outcome("verify_customer_identity", last_four_digits,
                           "success", {"customer", "debt"}))
            /\ UNCHANGED current_speech
       ELSE /\ effects' = generate_reply(
                   _log_event(effects, "identity_verification",
                              {"last_four_digits"}),
                   "cannot discuss account details without verification")
            /\ results' = Append(results,
                   Outcome("verify_customer_identity", last_four_digits,
                           "Identity verification failed", {}))
            /\ current_speech' = "playing"
    /\ UNCHANGED <<account_number, debt_amount, transfer_to, room, tool, session, coordVars, simVars,
                   job, transcripts>>

\* ------------------------------------------------- CustomerOptionsAgent
payment_reschedule ==
    LogReplyReturn("payment_reschedule", "payment_rescheduled",
                   {"new_date", "reason"},
                   "Confirm the payment has been rescheduled",
                   "Payment rescheduled")

payment_plan_swapped(months, start) ==
    IF months = 0
    THEN ReturnOnly("payment_plan", "raised")
    ELSE LET monthly_payment == round2(debt_amount, 4 * months)
         IN  IF start
             THEN LogReplyQuote("payment_plan", <<months>>,
                      "payment_plan_offered", {"months"},
                      "Confirm the payment plan has been started",
                      "Payment plan started", <<monthly_payment, 6>>)
             ELSE LogReplyQuote("payment_plan", <<months>>,
                      "payment_plan_started",
                      {"months", "monthly_payment", "total_amount"},
                      "Offer a payment plan",
                      "Payment plan offered", <<monthly_payment, 6>>)
\* payment_plan: debt_amount / months raises ZeroDivisionError for months = 0,
\* before anything is logged. Both returned strings read "... ${monthly_payment}
\* /month for 6 months", whatever months is.
payment_plan(months, start) ==
    IF months = 0
    THEN ReturnOnly("payment_plan", "raised")
    ELSE LET monthly_payment == round2(debt_amount, 4 * months)
         IN  IF start
             THEN LogReplyQuote("payment_plan", <<months>>,
                      "payment_plan_started", {"months"},
                      "Confirm the payment plan has been started",
                      "Payment plan started", <<monthly_payment, 6>>)
             ELSE LogReplyQuote("payment_plan", <<months>>,
                      "payment_plan_offered",
                      {"months", "monthly_payment", "total_amount"},
                      "Offer a payment plan",
                      "Payment plan offered", <<monthly_payment, 6>>)

\* payment_settlement: the returned string reads "Settlement offered:
\* ${settlement_amount} ({settlement_percentage}%)".
payment_settlement(settlement_percentage) ==
    LET settlement_amount == round2(debt_amount * settlement_percentage, 400)
    IN  LogReplyQuote("payment_settlement", <<settlement_percentage>>,
            "settlement_offered",
            {"original_amount", "settlement_percentage", "settlement_amount"},
            "Offer a settlement amount",
            "Settlement offered", <<settlement_amount, settlement_percentage>>)

claim_hardship ==
    LogReplyReturn("claim_hardship", "hardship_claim",
                   {"hardship_type", "description"},
                   "Acknowledge the hardship with empathy",
                   "Hardship claim recorded successfully")

cease_communication ==
    LogReplyReturn("cease_communication", "cease_communication", {"reason"},
                   "Acknowledge the request to cease communication",
                   "cease communication request processed")

dispute_debt ==
    LogReplyReturn("dispute_debt", "debt_disputed", {},
                   "Acknowledge the debt dispute",
                   "Debt dispute recorded successfully")

\* --------------------------------------------------- KnowledgeBaseAgent
creditor_policy_on_default ==
    /\ ToolCallable
    /\ effects' = _log_event(effects, "bank_policy_on_default", {})
    /\ results' = Append(results,
           Outcome("creditor_policy_on_default", <<>>, "policy_statement", {}))
    /\ UNCHANGED <<account_number, debt_amount, transfer_to, room, current_speech, tool,
                   session, coordVars, simVars, job, transcripts>>

\* -------------------------------------------------- CallManagementAgent
\* (the same handlers are mixed in by get_outbound_caller_agent,
\*  src/src/agents/OutboundCaller.py)

\* What the room provider answers to delete_room: deleting a room that is
\* already gone is the provider's to accept or to reject (not found).
DeleteRoomAnswers == IF room = "active" THEN {"ok"} ELSE {"ok", "not_found"}

\* _hangup: one delete_room request; its error, if any, propagates to the
\* caller of the handler.
_hangup(op) ==
    /\ effects' = api_request(effects, "delete_room", {"room"})
    /\ room' = "deleted"
    /\ \E answer \in DeleteRoomAnswers :
          results' = Append(results,
              Outcome(op, <<>>, IF answer = "ok" THEN "None" ELSE "raised", {}))

\* end_call, up to its first await: with speech in flight it suspends in
\* wait_for_playout, otherwise it goes straight to _hangup.
end_call_no_wait ==
    /\ ToolCallable
    /\ _hangup("end_call")
    /\ UNCHANGED <<account_number, debt_amount, transfer_to, current_speech, tool, session,
                   coordVars, simVars, job, transcripts>>
end_call ==
    /\ ToolCallable
    /\ IF current_speech # "None"
       THEN /\ tool' = "end_call:wait_for_playout"
            /\ UNCHANGED <<effects, room, results>>
       ELSE /\ _hangup("end_call")
            /\ UNCHANGED tool
    /\ UNCHANGED <<account_number, debt_amount, transfer_to, current_speech, session,
                   coordVars, simVars, job, transcripts>>

\* end_call, resumed when the speech it waits for has played out.
end_call_resume ==
    /\ tool = "end_call:wait_for_playout"
    /\ current_speech = "None"
    /\ tool' = "idle"
    /\ _hangup("end_call")
    /\ UNCHANGED <<account_number, debt_amount, transfer_to, current_speech, session,
                   coordVars, simVars, job, transcripts>>

\* detected_answering_machine: hangs up at once.
detected_answering_machine ==
    /\ ToolCallable
    /\ _hangup("detected_answering_machine")
    /\ UNCHANGED <<account_number, debt_amount, transfer_to, current_speech, tool, session,
                   coordVars, simVars, job, transcripts>>

\* The transfer request transfer_call sends to the SIP provider, followed by
\* the provider's error when the provider raises.
TransferRequest(log, answer) ==
    LET sent == api_request(log, "transfer_sip_participant",
                            {"room_name", "transfer_to"})
    IN  IF answer = "ok" THEN sent
        ELSE Append(sent, Effect("api_error", "transfer_sip_participant", <<>>, {}))

\* transfer_call, the except branch: the error is logged and a reply is
\* requested; nothing else happens.
transfer_failed_hangup(log) ==
    /\ effects' = api_request(
           Append(log, Effect("error", "error transferring call", <<>>, {})),
           "delete_room", {"room"})
    /\ room' = "deleted"
    /\ UNCHANGED current_speech
transfer_failed(log) ==
    /\ effects' = generate_reply(
           Append(log, Effect("error", "error transferring call", <<>>, {})),
           "there was an error transferring the call")
    /\ current_speech' = "playing"
    /\ UNCHANGED room

\* transfer_call: refuses without a target, otherwise asks the provider to
\* transfer and absorbs the provider's error.
transfer_call ==
    /\ ToolCallable
    /\ IF ~Truthy(transfer_to)
       THEN /\ results' = Append(results,
                   Outcome("transfer_call", <<>>,
                           "sorry, cannot transfer the call at the moment", {}))
            /\ UNCHANGED <<effects, current_speech, room>>
       ELSE /\ \/ /\ effects' = TransferRequest(effects, "ok")
                  /\ UNCHANGED <<current_speech, room>>
               \/ transfer_failed(TransferRequest(effects, "error"))
            /\ results' = Append(results,
                   Outcome("transfer_call", <<>>, "None", {}))
    /\ UNCHANGED <<account_number, debt_amount, transfer_to, tool, session, coordVars, simVars, job,
                   transcripts>>

schedule_callback ==
    LogReplyReturn("schedule_callback", "callback_scheduled",
                   {"date", "time", "reason"},
                   "Confirm the callback has been scheduled",
                   "Callback scheduled")

\* ------------------------------------------- the conversational session
\* The agent starts an utterance of its own (no tool is running).
AgentSpeaks ==
    /\ session = "started"
    /\ job = "running"
    /\ tool = "idle"
    /\ current_speech = "None"
    /\ current_speech' = "playing"
    /\ UNCHANGED <<account_number, debt_amount, transfer_to, effects, results, room, tool,
                   session, coordVars, simVars, job, transcripts>>

\* The speech in flight finishes playing out.
PlayoutDone ==
    /\ current_speech = "playing"
    /\ current_speech' = "None"
    /\ UNCHANGED <<account_number, debt_amount, transfer_to, effects, results, room, tool,
                   session, coordVars, simVars, job, transcripts>>

\* ------------------------------------------------ caller.py : entrypoint
\* entrypoint is suspended at an await (or has ended): the event loop may
\* run the other tasks.
Suspended ==
    pc \in {"await_create_sip_participant", "await_session_started",
            "wait_for_participant", "tester_await_session_start", "done",
            "raised"}

\* ctx.add_shutdown_callback(save_transcript)
add_shutdown_callback ==
    /\ pc = "add_shutdown_callback"
    /\ shutdown_callbacks' = Append(shutdown_callbacks, "caller.save_transcript")
    /\ pc' = "connect"
    /\ UNCHANGED <<callVars, session, dial_key, simVars, dial, participant_joined,
                   client, shutdown_requested, error_log, job, transcripts>>

\* await ctx.connect()
connect ==
    /\ pc = "connect"
    /\ pc' = "parse_metadata"
    /\ UNCHANGED <<callVars, session, dial_key, simVars, dial, participant_joined,
                   client, shutdown_callbacks, shutdown_requested, error_log,
                   job, transcripts>>

\* metadata["dial"]["phone_number"]: KeyError when the metadata carries the
\* number under another key; then the agent and the session are built.
parse_metadata ==
    /\ pc = "parse_metadata"
    /\ pc' = IF dial_key = "phone_number" THEN "create_task" ELSE "raised"
    /\ UNCHANGED <<callVars, session, dial_key, simVars, dial, participant_joined,
                   client, shutdown_callbacks, shutdown_requested, error_log,
                   job, transcripts>>

\* session_started = asyncio.create_task(session.start(...))
create_task_after_dial ==
    /\ pc = "create_task"
    /\ pc' = "create_sip_participant"
    /\ UNCHANGED <<callVars, session, dial_key, simVars, dial, participant_joined,
                   client, shutdown_callbacks, shutdown_requested, error_log,
                   job, transcripts>>
create_task_session_start ==
    /\ pc = "create_task"
    /\ session' = "scheduled"
    /\ pc' = "create_sip_participant"
    /\ UNCHANGED <<callVars, dial_key, simVars, dial, participant_joined, client,
                   shutdown_callbacks, shutdown_requested, error_log, job,
                   transcripts>>

\* await ctx.api.sip.create_sip_participant(...): the dial request goes out
\* and entrypoint suspends until it is answered or fails.
create_sip_participant ==
    /\ pc = "create_sip_participant"
    /\ dial' = "ringing"
    /\ pc' = "await_create_sip_participant"
    /\ UNCHANGED <<callVars, session, dial_key, simVars, participant_joined, client,
                   shutdown_callbacks, shutdown_requested, error_log, job,
                   transcripts>>

\* The event loop runs the session.start task.
session_start_runs ==
    /\ Suspended
    /\ session = "scheduled"
    /\ session' = "starting"
    /\ UNCHANGED <<callVars, coordVars, simVars, job, transcripts>>

\* session.start completes: the session listens and may speak.
session_start_completes ==
    /\ Suspended
    /\ session = "starting"
    /\ session' = "started"
    /\ UNCHANGED <<callVars, coordVars, simVars, job, transcripts>>

\* The callee answers: create_sip_participant returns.
dial_answered ==
    /\ pc = "await_create_sip_participant"
    /\ dial' = "answered"
    /\ pc' = "await_session_started"
    /\ UNCHANGED <<callVars, session, dial_key, simVars, participant_joined, client,
                   shutdown_callbacks, shutdown_requested, error_log, job,
                   transcripts>>

\* create_sip_participant raises api.TwirpError: the except clause logs the
\* message with the SIP status and calls ctx.shutdown().
dial_failed_no_shutdown ==
    /\ pc = "await_create_sip_participant"
    /\ dial' = "failed"
    /\ error_log' = Append(error_log, {"message", "sip_status_code", "sip_status"})
    /\ pc' = "done"
    /\ UNCHANGED <<callVars, session, dial_key, simVars, participant_joined, client,
                   shutdown_callbacks, shutdown_requested, job, transcripts>>
dial_failed ==
    /\ pc = "await_create_sip_participant"
    /\ dial' = "failed"
    /\ error_log' = Append(error_log, {"message", "sip_status_code", "sip_status"})
    /\ shutdown_requested' = TRUE
    /\ pc' = "done"
    /\ UNCHANGED <<callVars, session, dial_key, simVars, participant_joined, client,
                   shutdown_callbacks, job, transcripts>>

\* await session_started
await_session_started_no_wait ==
    /\ pc = "await_session_started"
    /\ pc' = "wait_for_participant"
    /\ UNCHANGED <<callVars, session, dial_key, simVars, dial, participant_joined,
                   client, shutdown_callbacks, shutdown_requested, error_log,
                   job, transcripts>>
await_session_started ==
    /\ pc = "await_session_started"
    /\ session = "started"
    /\ pc' = "wait_for_participant"
    /\ UNCHANGED <<callVars, session, dial_key, simVars, dial, participant_joined,
                   client, shutdown_callbacks, shutdown_requested, error_log,
                   job, transcripts>>

\* The dialled participant appears in the room.
participant_joins ==
    /\ dial = "answered"
    /\ ~participant_joined
    /\ participant_joined' = TRUE
    /\ UNCHANGED <<callVars, session, pc, dial_key, simVars, dial, client,
                   shutdown_callbacks, shutdown_requested, error_log, job,
                   transcripts>>

\* participant = await ctx.wait_for_participant(identity=...);
\* agent.client = participant
wait_for_participant ==
    /\ pc = "wait_for_participant"
    /\ participant_joined
    /\ client' = "participant"
    /\ pc' = "done"
    /\ UNCHANGED <<callVars, session, dial_key, simVars, dial, participant_joined,
                   shutdown_callbacks, shutdown_requested, error_log, job,
                   transcripts>>

\* What one run of a registered save_transcript leaves behind: the transcript
\* saved, or the level at which the write failure it caught is logged.
\* caller.py : entrypoint.save_transcript logs the failure with logger.error.
\* Its closure reads the variable session, which entrypoint has not assigned
\* when it raised before building the session; the NameError is caught like
\* a write failure.
save_transcript ==
    IF session = "not_created" THEN {"error"} ELSE {"saved", "error"}

\* utils/transcript.py : setup_transcript.save_transcript logs the failure
\* with logger.warning; its session is an argument.
setup_transcript_save_transcript == {"saved", "warning"}

\* The job shuts down (ctx.shutdown(), the room is gone, or entrypoint
\* raised): the session closes and every registered save_transcript runs.
job_shutdown ==
    /\ job = "running"
    /\ shutdown_requested \/ room = "deleted" \/ pc = "raised"
    /\ job' = "shut_down"
    /\ session' = IF session = "not_created" THEN session ELSE "closed"
    /\ \E written \in [1..Len(shutdown_callbacks) -> {"saved", "error", "warning"}] :
          /\ \A i \in 1..Len(shutdown_callbacks) :
                written[i] \in IF shutdown_callbacks[i] = "caller.save_transcript"
                                THEN save_transcript
                                ELSE setup_transcript_save_transcript
          /\ transcripts' = transcripts \o written
    /\ UNCHANGED <<callVars, coordVars, simVars>>

\* ------------------------------------------------ tester.py : entrypoint
\* The session is built and setup_transcript(ctx, session, "andrea")
\* registers its save_transcript.
setup_transcript ==
    /\ pc = "setup_transcript"
    /\ session' = "created"
    /\ shutdown_callbacks' = Append(shutdown_callbacks, "transcript.save_transcript")
    /\ pc' = "tester_connect"
    /\ UNCHANGED <<callVars, dial_key, simVars, dial, participant_joined, client,
                   shutdown_requested, error_log, job, transcripts>>

\* await ctx.connect()
tester_connect ==
    /\ pc = "tester_connect"
    /\ pc' = "tester_session_start"
    /\ UNCHANGED <<callVars, session, dial_key, simVars, dial, participant_joined,
                   client, shutdown_callbacks, shutdown_requested, error_log,
                   job, transcripts>>

\* await session.start(agent=agent, **config): entrypoint suspends until the
\* session has started.
tester_session_start ==
    /\ pc = "tester_session_start"
    /\ session' = "starting"
    /\ pc' = "tester_await_session_start"
    /\ UNCHANGED <<callVars, dial_key, simVars, dial, participant_joined, client,
                   shutdown_callbacks, shutdown_requested, error_log, job,
                   transcripts>>

\* await session.generate_reply(user_input=...)
tester_generate_reply ==
    /\ pc = "tester_await_session_start"
    /\ session = "started"
    /\ effects' = generate_reply(effects, "user_input")
    /\ current_speech' = "playing"
    /\ pc' = "done"
    /\ UNCHANGED <<account_number, debt_amount, transfer_to, results, room,
                   tool, session, dial_key, simVars, dial, participant_joined, client,
                   shutdown_callbacks, shutdown_requested, error_log, job,
                   transcripts>>

\* --------------------------- tests/agent.py : AgentTester (test utility)
\* A text is modelled by the words it contains among those check_compliance
\* searches for.
InputTexts == {{}, {"sue"}, {"debt"}}
Scenarios == {{}, {"collection"}}

\* simulate_agent_response: f"Mock response to: {user_input} in scenario:
\* {scenario}" contains what its two arguments contain.
simulate_agent_response(user_input, scen) == user_input \cup scen

\* check_compliance(response)
check_compliance(response) ==
    [professional_tone |-> response \cap {"stupid", "idiot", "moron"} = {},
     no_threats |-> response \cap {"sue", "arrest", "jail"} = {},
     identifies_collector |-> "collection" \in response \/ "debt" \in response,
     respectful_language |-> TRUE]

test_conversation_flow_stops_on_error ==
    /\ flow_pc = "loop"
    /\ input_pos < Len(user_inputs)
    /\ LET input_text == user_inputs[input_pos + 1]
           response == simulate_agent_response(input_text, scenario)
       IN  \/ /\ agent_responses' = Append(agent_responses, response)
              /\ compliance_checks' =
                    Append(compliance_checks, check_compliance(response))
              /\ input_pos' = input_pos + 1
              /\ UNCHANGED <<errors, flow_pc>>
           \/ /\ errors' = Append(errors, "str(e)")
              /\ input_pos' = input_pos + 1
              /\ flow_pc' = "returned"
              /\ UNCHANGED <<agent_responses, compliance_checks>>
    /\ UNCHANGED <<agentVars, scenario, user_inputs, convVars, instances>>
\* One iteration of `for input_text in user_inputs`: the awaited
\* simulate_agent_response returns and the response and its compliance check
\* are appended, or it raises and the except clause appends the error.
test_conversation_flow_iteration ==
    /\ flow_pc = "loop"
    /\ input_pos < Len(user_inputs)
    /\ LET input_text == user_inputs[input_pos + 1]
           response == simulate_agent_response(input_text, scenario)
       IN  \/ /\ agent_responses' = Append(agent_responses, response)
              /\ compliance_checks' =
                    Append(compliance_checks, check_compliance(response))
              /\ UNCHANGED errors
           \/ /\ errors' = Append(errors, "str(e)")
              /\ UNCHANGED <<agent_responses, compliance_checks>>
    /\ input_pos' = input_pos + 1
    /\ UNCHANGED <<agentVars, scenario, user_inputs, flow_pc, convVars, instances>>

\* The loop is exhausted: return results.
test_conversation_flow_return ==
    /\ flow_pc = "loop"
    /\ input_pos = Len(user_inputs)
    /\ flow_pc' = "returned"
    /\ UNCHANGED <<agentVars, scenario, user_inputs, input_pos, agent_responses,
                   compliance_checks, errors, convVars, instances>>

\* -------------------------------------- improve.py : have_conversation
\* agents[i]["role"]; only the first, the test agent, has a hangup attribute
\* and an end_call tool that sets it.
Roles == <<"agent", "customer">>

\* add_message(role, text)
add_message(log, role, text) == Append(log, [role |-> role, text |-> text])

\* check_hangup(agent_info), given the agent's hangup attribute
check_hangup(who, flag) == who = 1 /\ flag

\* The next position of the two nested for loops.
NextSpeaker ==
    /\ speaker' = IF speaker = 1 THEN 2 ELSE 1
    /\ round' = IF speaker = 1 THEN round ELSE round + 1

\* generate_reply returns a reply with a chat message; while generating it
\* the test agent may have invoked end_call (ends). The message is added,
\* then check_hangup either adds "hangup" and returns, or the loops go on.
generate_reply_message(ends) ==
    /\ conv_pc = "loop"
    /\ round < turns
    /\ ends => speaker = 1
    /\ hangup' = (hangup \/ ends)
    /\ LET added == add_message(transcript, Roles[speaker], "reply")
       IN  IF check_hangup(speaker, hangup')
           THEN /\ transcript' = add_message(added, Roles[speaker], "hangup")
                /\ conv_pc' = "returned"
                /\ UNCHANGED <<speaker, round>>
           ELSE /\ transcript' = added
                /\ NextSpeaker
                /\ UNCHANGED conv_pc
    /\ UNCHANGED <<agentVars, flowVars, turns, dots, instances>>

\* generate_reply returns a reply without a chat message: check_hangup adds
\* "hangup" and returns, or a "." is printed and the while loop asks the same
\* agent again.
generate_reply_empty(ends) ==
    /\ conv_pc = "loop"
    /\ round < turns
    /\ ends => speaker = 1
    /\ hangup' = (hangup \/ ends)
    /\ IF check_hangup(speaker, hangup')
       THEN /\ transcript' = add_message(transcript, Roles[speaker], "hangup")
            /\ conv_pc' = "returned"
            /\ UNCHANGED dots
       ELSE /\ dots' = 1 - dots
            /\ UNCHANGED <<transcript, conv_pc>>
    /\ UNCHANGED <<agentVars, flowVars, turns, round, speaker, instances>>

\* `for _ in range(turns)` is exhausted: return transcript.
have_conversation_return ==
    /\ conv_pc = "loop"
    /\ round = turns
    /\ conv_pc' = "returned"
    /\ UNCHANGED <<agentVars, flowVars, turns, round, speaker, transcript,
                   hangup, dots, instances>>

\* ------------------------------------- two calls, one agent instance each
Calls == {1, 2}

\* The account numbers of the two calls' metadata: the dispatched one and
\* one whose last four characters are the dispatched one's first four.
InstanceAccounts == {DispatchAccount, <<"7", "7", "5", "0", "3", "3">>}
InstanceDigits == {<<"4", "3", "2", "9">>, <<"5", "0", "3", "3">>}

\* The class of an instance: the factory of OutboundCaller.py or the one of
\* OutboundCallerTest.py, each called anew for every call.
AgentClasses == {"OutboundCallerAgent", "OutboundCallerTestAgent"}

\* A fresh instance: __init__ stores the metadata; hangup is the class
\* attribute's False until the instance assigns its own.
NewInstance(class, acct) ==
    [class |-> class, account_number |-> acct, hangup |-> FALSE,
     room |-> "active", events |-> <<>>, results |-> <<>>]

InstanceCallable(c) ==
    /\ instances # <<>>
    /\ Len(instances[c].results) < MaxInstanceOps

InstanceFrame == UNCHANGED <<agentVars, flowVars, convVars>>

\* self._log_event on instance c: stamped with self.metadata's account.
instance_log_event(c, event_type) ==
    Append(instances[c].events,
           [event |-> event_type, account_number |-> instances[c].account_number])

\* verify_customer_identity on call c
instance_verify_customer_identity(c, last_four_digits) ==
    /\ InstanceCallable(c)
    /\ instances' = [instances EXCEPT
          ![c].events = instance_log_event(c, "identity_verification"),
          ![c].results = Append(@,
              [op |-> "verify_customer_identity", args |-> last_four_digits,
               ret |-> IF last_four_digits = LastFour(instances[c].account_number)
                       THEN "success" ELSE "Identity verification failed"])]
    /\ InstanceFrame

\* dispute_debt on call c
instance_dispute_debt(c) ==
    /\ InstanceCallable(c)
    /\ instances' = [instances EXCEPT
          ![c].events = instance_log_event(c, "debt_disputed"),
          ![c].results = Append(@,
              [op |-> "dispute_debt", args |-> <<>>,
               ret |-> "Debt dispute recorded successfully"])]
    /\ InstanceFrame

\* end_call on call c: the test agent assigns self.hangup = True; the
\* outbound caller deletes the room of its own job context.
instance_end_call_class_attribute(c) ==
    /\ InstanceCallable(c)
    /\ IF instances[c].class = "OutboundCallerTestAgent"
       THEN instances' = [d \in DOMAIN instances |->
                [instances[d] EXCEPT
                    !.hangup = TRUE,
                    !.results = IF d = c
                                THEN Append(@, [op |-> "end_call", args |-> <<>>,
                                                ret |-> "None"])
                                ELSE @]]
       ELSE instances' = [instances EXCEPT
                ![c].room = "deleted",
                ![c].results = Append(@,
                    [op |-> "end_call", args |-> <<>>, ret |-> "None"])]
    /\ InstanceFrame
instance_end_call(c) ==
    /\ InstanceCallable(c)
    /\ IF instances[c].class = "OutboundCallerTestAgent"
       THEN instances' = [instances EXCEPT
                ![c].hangup = TRUE,
                ![c].results = Append(@,
                    [op |-> "end_call", args |-> <<>>, ret |-> "None"])]
       ELSE instances' = [instances EXCEPT
                ![c].room = "deleted",
                ![c].results = Append(@,
                    [op |-> "end_call", args |-> <<>>, ret |-> "None"])]
    /\ InstanceFrame

\* ------------------------------------------- parts not running in a spec
\* No test_conversation_flow is running.
FlowIdle ==
    /\ scenario = {}
    /\ user_inputs = <<>>
    /\ input_pos = 0
    /\ agent_responses = <<>>
    /\ compliance_checks = <<>>
    /\ errors = <<>>
    /\ flow_pc = "idle"

\* No have_conversation is running.
ConvIdle ==
    /\ turns = 0
    /\ round = 0
    /\ speaker = 1
    /\ transcript = <<>>
    /\ hangup = FALSE
    /\ dots = 0
    /\ conv_pc = "idle"

\* No second call is modelled.
InstancesIdle == instances = <<>>

\* The agent and the job, at rest on a connected call.
AgentIdle ==
    /\ account_number = DispatchAccount
    /\ debt_amount = DispatchDebt
    /\ transfer_to = "None"
    /\ effects = <<>>
    /\ results = <<>>
    /\ room = "active"
    /\ current_speech = "None"
    /\ tool = "idle"
    /\ session = "started"
    /\ pc = "done"
    /\ dial_key = "phone_number"
    /\ dial = "answered"
    /\ participant_joined = TRUE
    /\ client = "participant"
    /\ shutdown_callbacks = <<"caller.save_transcript">>
    /\ shutdown_requested = FALSE
    /\ error_log = <<>>
    /\ job = "running"
    /\ transcripts = <<>>

\* ------------------------------------------------------ specifications
\* A call that entrypoint has connected: the session runs and the dialled
\* participant is bound to the agent.
Init ==
    /\ account_number = DispatchAccount
    /\ debt_amount = DispatchDebt
    /\ transfer_to \in TransferTargets
    /\ effects = <<>>
    /\ results = <<>>
    /\ room = "active"
    /\ current_speech = "None"
    /\ tool = "idle"
    /\ session = "started"
    /\ pc = "done"
    /\ dial_key = "phone_number"
    /\ dial = "answered"
    /\ participant_joined = TRUE
    /\ client = "participant"
    /\ shutdown_callbacks = <<"caller.save_transcript">>
    /\ shutdown_requested = FALSE
    /\ error_log = <<>>
    /\ job = "running"
    /\ transcripts = <<>>
    /\ FlowIdle
    /\ ConvIdle
    /\ InstancesIdle

\* The names of the methods the agent classes declare with @function_tool.
function_tools ==
    {"end_call", "detected_answering_machine", "transfer_call",
     "schedule_callback", "creditor_policy_on_default",
     "verify_customer_identity", "payment_reschedule", "payment_plan",
     "payment_settlement", "claim_hardship", "cease_communication",
     "dispute_debt"}

\* The tools the reasoning engine may invoke, with their arguments.
Tools ==
    \/ \E d \in DigitInputs : verify_customer_identity(d)
    \/ payment_reschedule
    \/ \E months \in Months, start \in BOOLEAN : payment_plan(months, start)
    \/ \E pct \in Percentages : payment_settlement(pct)
    \/ claim_hardship
    \/ cease_communication
    \/ dispute_debt
    \/ creditor_policy_on_default
    \/ schedule_callback
    \/ end_call
    \/ end_call_resume
    \/ detected_answering_machine
    \/ transfer_call

Next ==
    \/ Tools
    \/ AgentSpeaks
    \/ PlayoutDone
    \/ job_shutdown

Spec == Init /\ [][Next]_vars

\* The handlers that call _log_event, with the event type each passes.
LoggingHandlers ==
    { <<"schedule_callback", "callback_scheduled">>,
      <<"creditor_policy_on_default", "bank_policy_on_default">>,
      <<"verify_customer_identity", "identity_verification">>,
      <<"payment_reschedule", "payment_rescheduled">>,
      <<"payment_plan", "payment_plan_started">>,
      <<"payment_plan", "payment_plan_offered">>,
      <<"payment_settlement", "settlement_offered">>,
      <<"claim_hardship", "hardship_claim">>,
      <<"cease_communication", "cease_communication">>,
      <<"dispute_debt", "debt_disputed">> }

\* _log_event raises (building or serialising the event, or logger.info,
\* fails): it has no try/except and neither has any handler around its call,
\* which precedes the reply request and the return, so the exception leaves
\* the handler before either.
_log_event_raises(op, event_type) ==
    /\ ToolCallable
    /\ effects' = Append(effects, Effect("log_error", event_type, account_number, {}))
    /\ results' = Append(results, Outcome(op, <<>>, "raised", {}))
    /\ UNCHANGED <<account_number, debt_amount, transfer_to, room,
                   current_speech, tool, session, coordVars, simVars, job, transcripts>>

\* The tools on a connected call, where writing an event may fail.
NextLog ==
    \/ Next
    \/ \E h \in LoggingHandlers : _log_event_raises(h[1], h[2])

SpecLog == Init /\ [][NextLog]_vars

\* A job as the worker hands it to entrypoint.
InitCoord ==
    /\ account_number = DispatchAccount
    /\ debt_amount = DispatchDebt
    /\ transfer_to \in TransferTargets
    /\ effects = <<>>
    /\ results = <<>>
    /\ room = "active"
    /\ current_speech = "None"
    /\ tool = "idle"
    /\ session = "not_created"
    /\ pc = "add_shutdown_callback"
    /\ dial_key \in DialKeys
    /\ dial = "not_requested"
    /\ participant_joined = FALSE
    /\ client = "None"
    /\ shutdown_callbacks = <<>>
    /\ shutdown_requested = FALSE
    /\ error_log = <<>>
    /\ job = "running"
    /\ transcripts = <<>>
    /\ FlowIdle
    /\ ConvIdle
    /\ InstancesIdle

NextCoord ==
    \/ add_shutdown_callback
    \/ connect
    \/ parse_metadata
    \/ create_task_session_start
    \/ create_sip_participant
    \/ session_start_runs
    \/ session_start_completes
    \/ dial_answered
    \/ dial_failed
    \/ await_session_started
    \/ participant_joins
    \/ wait_for_participant
    \/ AgentSpeaks
    \/ PlayoutDone
    \/ job_shutdown

SpecCoord == InitCoord /\ [][NextCoord]_vars

\* entrypoint's own steps, the session.start task, the playout and the job's
\* shutdown are scheduled fairly, and the dial provider answers every dial
\* request with success or an error; whether the dialled participant ever
\* joins the room is up to the callee.
FairSpecCoord ==
    /\ SpecCoord
    /\ WF_vars(add_shutdown_callback \/ connect \/ parse_metadata
                 \/ create_task_session_start \/ create_sip_participant
                 \/ await_session_started \/ wait_for_participant)
    /\ WF_vars(session_start_runs \/ session_start_completes)
    /\ WF_vars(dial_answered \/ dial_failed)
    /\ WF_vars(PlayoutDone)
    /\ WF_vars(job_shutdown)

\* A job from the worker's hands to its shutdown, under either entrypoint
\* (caller.py, tester.py), with the tools that end or hand over the call.
InitCall ==
    /\ account_number = DispatchAccount
    /\ debt_amount = DispatchDebt
    /\ transfer_to \in TransferTargets
    /\ effects = <<>>
    /\ results = <<>>
    /\ room = "active"
    /\ current_speech = "None"
    /\ tool = "idle"
    /\ session = "not_created"
    /\ pc \in {"add_shutdown_callback", "setup_transcript"}
    /\ dial_key \in DialKeys
    /\ dial = "not_requested"
    /\ participant_joined = FALSE
    /\ client = "None"
    /\ shutdown_callbacks = <<>>
    /\ shutdown_requested = FALSE
    /\ error_log = <<>>
    /\ job = "running"
    /\ transcripts = <<>>
    /\ FlowIdle
    /\ ConvIdle
    /\ InstancesIdle

NextCall ==
    \/ NextCoord
    \/ setup_transcript
    \/ tester_connect
    \/ tester_session_start
    \/ tester_generate_reply
    \/ end_call
    \/ end_call_resume
    \/ detected_answering_machine
    \/ transfer_call

SpecCall == InitCall /\ [][NextCall]_vars

\* The handlers' own steps and the playout are scheduled fairly; which tool
\* the reasoning engine invokes next, if any, is up to it.
FairSpec ==
    /\ Spec
    /\ WF_vars(end_call_resume)
    /\ WF_vars(PlayoutDone)
    /\ WF_vars(job_shutdown)

\* verify_customer_identity as a function of the account number and the
\* supplied digits: every pair of strings over Chars up to MaxAcctLen.
InitVerify ==
    /\ account_number \in Strings(MaxAcctLen)
    /\ debt_amount = DispatchDebt
    /\ transfer_to = "None"
    /\ effects = <<>>
    /\ results = <<>>
    /\ room = "active"
    /\ current_speech = "None"
    /\ tool = "idle"
    /\ session = "started"
    /\ pc = "done"
    /\ dial_key = "phone_number"
    /\ dial = "answered"
    /\ participant_joined = TRUE
    /\ client = "participant"
    /\ shutdown_callbacks = <<"caller.save_transcript">>
    /\ shutdown_requested = FALSE
    /\ error_log = <<>>
    /\ job = "running"
    /\ transcripts = <<>>
    /\ FlowIdle
    /\ ConvIdle
    /\ InstancesIdle

NextVerify ==
    \E d \in Strings(MaxAcctLen) :
        /\ results = <<>>
        /\ verify_customer_identity(d)

SpecVerify == InitVerify /\ [][NextVerify]_vars

\* ------------------------------------------- test_conversation_flow
\* test_conversation_flow(scenario, user_inputs) for every list of up to
\* MaxInputs inputs.
InitFlow ==
    /\ AgentIdle
    /\ ConvIdle
    /\ InstancesIdle
    /\ scenario \in Scenarios
    /\ user_inputs \in UNION {[1..n -> InputTexts] : n \in 0..MaxInputs}
    /\ input_pos = 0
    /\ agent_responses = <<>>
    /\ compliance_checks = <<>>
    /\ errors = <<>>
    /\ flow_pc = "loop"

NextFlow ==
    \/ test_conversation_flow_iteration
    \/ test_conversation_flow_return

SpecFlow == InitFlow /\ [][NextFlow]_vars

\* ------------------------------------------------- have_conversation
\* have_conversation(metadata, turns) after both sessions have started and
\* the customer's opening line has been added.
InitConv ==
    /\ AgentIdle
    /\ FlowIdle
    /\ InstancesIdle
    /\ turns \in 0..MaxTurns
    /\ round = 0
    /\ speaker = 1
    /\ transcript = add_message(<<>>, "customer", "Hello, who is this?")
    /\ hangup = FALSE
    /\ dots = 0
    /\ conv_pc = "loop"

NextConv ==
    \/ \E ends \in BOOLEAN : generate_reply_message(ends)
    \/ \E ends \in BOOLEAN : generate_reply_empty(ends)
    \/ have_conversation_return

SpecConv == InitConv /\ [][NextConv]_vars

\* The coroutine is never starved: every awaited generate_reply returns and
\* the loops take their next step. What a reply contains is up to the model
\* behind the session.
FairSpecConv == SpecConv /\ WF_vars(NextConv)

\* ------------------------------------------------ two concurrent calls
\* Two calls run at once, each with an instance of its own class object and
\* its own metadata.
InitCalls ==
    /\ AgentIdle
    /\ FlowIdle
    /\ ConvIdle
    /\ \E class1, class2 \in AgentClasses, acct1, acct2 \in InstanceAccounts :
          instances = <<NewInstance(class1, acct1), NewInstance(class2, acct2)>>

NextCalls ==
    \E c \in Calls :
        \/ \E d \in InstanceDigits : instance_verify_customer_identity(c, d)
        \/ instance_dispute_debt(c)
        \/ instance_end_call(c)

SpecCalls == InitCalls /\ [][NextCalls]_vars

\* -------------------------------------- the payment offers as pure functions
\* One plan or settlement invocation on a connected call, over a range of debt
\* amounts.
InitMoney ==
    /\ account_number = DispatchAccount
    /\ debt_amount \in DebtAmounts
    /\ transfer_to = "None"
    /\ effects = <<>>
    /\ results = <<>>
    /\ room = "active"
    /\ current_speech = "None"
    /\ tool = "idle"
    /\ session = "started"
    /\ pc = "done"
    /\ dial_key = "phone_number"
    /\ dial = "answered"
    /\ participant_joined = TRUE
    /\ client = "participant"
    /\ shutdown_callbacks = <<"caller.save_transcript">>
    /\ shutdown_requested = FALSE
    /\ error_log = <<>>
    /\ job = "running"
    /\ transcripts = <<>>
    /\ FlowIdle
    /\ ConvIdle
    /\ InstancesIdle

NextMoney ==
    /\ results = <<>>
    /\ \/ \E months \in Months, start \in BOOLEAN : payment_plan(months, start)
       \/ \E pct \in Percentages : payment_settlement(pct)

SpecMoney == InitMoney /\ [][NextMoney]_vars

\* ------------------------------------------------------------ properties
Last(q) == q[Len(q)]

\* This step completed an invocation of tool op.
Completes(op) ==
    /\ Len(results') = Len(results) + 1
    /\ Last(results').op = op

\* An event of the given type is in the log.
EventLogged(event_type) ==
    \E i \in 1..Len(effects) :
        effects[i].kind = "event" /\ effects[i].name = event_type

\* The agent keeps no state fields of its own: what a call has recorded is
\* what its handlers have logged and returned.
verified ==
    \E i \in 1..Len(results) :
        results[i].op = "verify_customer_identity" /\ results[i].ret = "success"
debt_disputed == EventLogged("debt_disputed")
hardship_claimed == EventLogged("hardship_claim")
payment_plan_offered == EventLogged("payment_plan_offered")
payment_plan_started == EventLogged("payment_plan_started")

GatedOps ==
    {"payment_reschedule", "payment_plan", "payment_settlement", "claim_hardship"}
GatedEvents ==
    {"payment_rescheduled", "payment_plan_started", "payment_plan_offered",
     "settlement_offered", "hardship_claim"}

\* C1 (as claimed): while no verify_customer_identity call has succeeded,
\* every gated tool (payment_reschedule, payment_plan, payment_settlement,
\* claim_hardship) returns the refusal outcome and none of their events is
\* logged (nothing is offered, computed or recorded).
C1_VerificationGate ==
    ~verified =>
        /\ \A i \in 1..Len(results) :
              results[i].op \in GatedOps => results[i].ret = "refused"
        /\ \A e \in GatedEvents : ~EventLogged(e)

C3_RaceFreeStart ==
    /\ dial # "not_requested" => session # "not_created"
    /\ pc \in {"await_create_sip_participant", "await_session_started",
               "wait_for_participant"}
          => session # "not_created" /\ dial # "not_requested"
    /\ dial = "answered" => session \in {"scheduled", "starting", "started"}

\* C3 witness: the session has started and speaks while the dial still rings.
C3_Witness ==
    /\ dial = "ringing"
    /\ session = "started"
    /\ current_speech = "playing"

\* C4: after the dial failed with the provider's error, shutdown of the call
\* context has been requested, the error with its SIP status code and status
\* is logged, and entrypoint has ended without waiting for or binding a
\* participant.
C4_DialFailurePropagation ==
    dial = "failed" =>
        /\ shutdown_requested
        /\ Len(error_log) = 1
        /\ {"message", "sip_status_code", "sip_status"} \subseteq error_log[1]
        /\ pc = "done"
        /\ client = "None"

\* C4 witness: the dial failed and the job has shut down.
C4_Witness ==
    /\ dial = "failed"
    /\ job = "shut_down"

\* C5 (as claimed): every completed cease_communication is eventually
\* followed by the deletion of the room.
C5_CeaseThenTerminates ==
    [](EventLogged("cease_communication") => <>(room = "deleted"))

\* C6 (as claimed): no hangup raises, whether or not the room is already gone.
C6_IdempotentHangup ==
    \A i \in 1..Len(results) :
        results[i].op \in {"end_call", "detected_answering_machine"}
            => results[i].ret # "raised"

\* C7: a transfer_call on a call whose transfer target is empty or absent
\* returns the refusal string, sends nothing to the provider, requests no
\* reply and leaves the room alone.
C7_NoTargetTransfer ==
    [][ (Completes("transfer_call") /\ transfer_to \in {"", "None"}) =>
            /\ Last(results').ret = "sorry, cannot transfer the call at the moment"
            /\ effects' = effects
            /\ room' = room
            /\ current_speech' = current_speech ]_vars

\* C7 witness: a transfer was refused on a call without a target.
C7_Witness ==
    /\ transfer_to \in {"", "None"}
    /\ \E i \in 1..Len(results) :
          /\ results[i].op = "transfer_call"
          /\ results[i].ret = "sorry, cannot transfer the call at the moment"

\* C8: end_call sends its delete_room request only when no speech is in
\* flight, and it suspends to wait for playout only when speech is in flight.
C8_EndCallOrdering ==
    [][ /\ Completes("end_call") => current_speech = "None"
        /\ (tool = "idle" /\ tool' = "end_call:wait_for_playout")
               => (current_speech = "playing" /\ effects' = effects
                   /\ room' = room) ]_vars

\* C8 witness: end_call waited, the speech has played out, and the room is
\* still there to be deleted.
C8_Witness ==
    /\ tool = "end_call:wait_for_playout"
    /\ current_speech = "None"
    /\ room = "active"

\* The step in which the transfer provider raised.
TransferRaised ==
    \E i \in (Len(effects) + 1)..Len(effects') :
        effects'[i].kind = "api_error"

\* C9: when the transfer provider raises, transfer_call returns normally, its
\* last act is the request for the reply that the transfer failed, the room
\* and the job are left as they were, no shutdown is requested, and the
\* session stays ready for the next tool.
C9_TransferFailureNonFatal ==
    [][ TransferRaised =>
            /\ Completes("transfer_call")
            /\ Last(results').ret = "None"
            /\ Last(effects').kind = "reply"
            /\ Last(effects').name = "there was an error transferring the call"
            /\ \A i \in (Len(effects) + 1)..Len(effects') :
                  effects'[i].name # "delete_room"
            /\ room' = room
            /\ job' = job
            /\ shutdown_requested' = FALSE
            /\ session' = "started"
            /\ tool' = "idle" ]_vars

\* C9 witness: after a failed transfer a later tool logged its event on the
\* same, still active, call.
C9_Witness ==
    /\ room = "active"
    /\ \E i, j \in 1..Len(effects) :
          /\ i < j
          /\ effects[i].kind = "api_error"
          /\ effects[j].kind = "event"

\* digits are the last four characters of acct (all of them when acct has
\* fewer than four).
IsLastFour(digits, acct) ==
    /\ Len(digits) = (IF Len(acct) < 4 THEN Len(acct) ELSE 4)
    /\ \A k \in 1..Len(digits) : digits[k] = acct[Len(acct) - Len(digits) + k]

\* C10: verify_customer_identity returns the success outcome exactly when the
\* supplied digits are the last four characters of the account number; any
\* other digits get the failure string, which carries neither customer nor
\* debt, and the handler never raises.
C10_VerifyOutcome ==
    \A i \in 1..Len(results) :
        results[i].op = "verify_customer_identity" =>
            /\ results[i].ret = "success"
                  <=> IsLastFour(results[i].args, account_number)
            /\ results[i].ret = "success"
                  => results[i].carries = {"customer", "debt"}
            /\ results[i].ret # "success"
                  => /\ results[i].ret = "Identity verification failed"
                     /\ results[i].carries = {}

\* C10 witness: digits matched the tail of an account number longer than four
\* characters.
C10_Witness ==
    /\ Len(account_number) > 4
    /\ \E i \in 1..Len(results) :
          /\ results[i].op = "verify_customer_identity"
          /\ results[i].ret = "success"

\* ------------------------------------------------------------------ C11
\* Rounding to the nearest cent with a tie rounded up ("standard rounding"),
\* in cents, of num / den >= 0.
HalfUpCents(num, den) == (200 * num + den) \div (2 * den)

\* C11 (plan rounding): every payment plan that was computed quotes
\* debt.amount / months rounded to the cent with ties rounded up; on the
\* dispatched debt of 150.75 a six-month plan quotes 25.13.
C11_PlanRounding ==
    \A i \in 1..Len(results) :
        (results[i].op = "payment_plan" /\ results[i].ret # "raised")
            => /\ results[i].quote[1]
                    = HalfUpCents(debt_amount, 4 * results[i].args[1])
               /\ (debt_amount = DispatchDebt /\ results[i].args[1] = 6)
                    => results[i].quote[1] = 2513

\* ------------------------------------------------------------------ C12
\* C12 (settlement rounding): every settlement offer quotes
\* debt.amount * settlement_percentage / 100 rounded to the cent with ties
\* rounded up; 50 percent of the dispatched debt of 150.75 quotes 75.38.
C12_SettlementRounding ==
    \A i \in 1..Len(results) :
        results[i].op = "payment_settlement"
            => /\ results[i].quote[1]
                    = HalfUpCents(debt_amount * results[i].args[1], 400)
               /\ (debt_amount = DispatchDebt /\ results[i].args[1] = 50)
                    => results[i].quote[1] = 7538

\* ------------------------------------------------------------------ C13
\* The operations of the compliance state machine.
ComplianceOps ==
    {"verify_customer_identity", "dispute_debt", "payment_reschedule",
     "payment_plan", "payment_settlement", "claim_hardship",
     "schedule_callback", "cease_communication", "creditor_policy_on_default"}

\* The event type that names a completed operation.
EventNaming(outcome) ==
    CASE outcome.op = "verify_customer_identity" -> "identity_verification"
      [] outcome.op = "dispute_debt" -> "debt_disputed"
      [] outcome.op = "payment_reschedule" -> "payment_rescheduled"
      [] outcome.op = "payment_plan" ->
            IF outcome.ret = "Payment plan started"
            THEN "payment_plan_started" ELSE "payment_plan_offered"
      [] outcome.op = "payment_settlement" -> "settlement_offered"
      [] outcome.op = "claim_hardship" -> "hardship_claim"
      [] outcome.op = "schedule_callback" -> "callback_scheduled"
      [] outcome.op = "cease_communication" -> "cease_communication"
      [] outcome.op = "creditor_policy_on_default" -> "bank_policy_on_default"

\* What this step appended to the side-effect log.
Appended == SubSeq(effects', Len(effects) + 1, Len(effects'))

\* The positions of the events among what this step appended.
AppendedEvents == {i \in 1..Len(Appended) : Appended[i].kind = "event"}

\* C13 (one event per operation): a step that completes a compliance
\* operation (one that returned rather than raised) keeps the log and appends
\* exactly one event to it; that event's type names the operation and its
\* account number is the call's.
C13_OneEventPerOperation ==
    [][(\E op \in ComplianceOps : Completes(op) /\ Last(results').ret # "raised")
        => /\ Len(effects') >= Len(effects)
           /\ SubSeq(effects', 1, Len(effects)) = effects
           /\ Cardinality(AppendedEvents) = 1
           /\ \A i \in AppendedEvents :
                /\ Appended[i].name = EventNaming(Last(results'))
                /\ Appended[i].account_number = account_number]_vars

\* Both branches of verify_customer_identity and of payment_plan have
\* completed, and the log holds one event for each completed operation.
C13_Witness ==
    /\ Len(results) = MaxOps
    /\ \A i \in 1..Len(results) :
            results[i].op \in ComplianceOps /\ results[i].ret # "raised"
    /\ \E i, j \in 1..Len(results) :
            /\ results[i].op = "payment_plan" /\ results[j].op = "payment_plan"
            /\ results[i].ret = "Payment plan started"
            /\ results[j].ret = "Payment plan offered"
    /\ \E i \in 1..Len(results) :
            /\ results[i].op = "verify_customer_identity"
            /\ results[i].ret = "Identity verification failed"
    /\ Cardinality({i \in 1..Len(effects) : effects[i].kind = "event"}) = MaxOps

\* ------------------------------------------------------------------ C14
\* C14 (event before reply): within one operation, every event it logs is
\* appended before every reply it requests, and an operation that requests a
\* reply about an action it logs has logged it by then.
C14_EventBeforeReply ==
    [][\A j \in 1..Len(Appended) :
          (Appended[j].kind = "reply" /\ AppendedEvents # {})
             => \A i \in AppendedEvents : i < j]_vars

\* An operation has logged its event and then requested its reply.
C14_Witness ==
    \E i \in 1..Len(effects) - 1 :
        /\ effects[i].kind = "event" /\ effects[i].name = "callback_scheduled"
        /\ effects[i + 1].kind = "reply"

\* ------------------------------------------------------------------ C15
\* C15 (participant-join timeout): the wait for the dialled participant is
\* bounded: whenever entrypoint waits for the participant, eventually either
\* the participant has joined or entrypoint has stopped waiting, reported the
\* failure and requested shutdown of the call context.
C15_JoinTimeout ==
    [](pc = "wait_for_participant"
         => <>(participant_joined
                 \/ (pc = "done" /\ error_log # <<>> /\ shutdown_requested)))

\* ------------------------------------------------------------------ C16
\* C16 (dial failure stops the session): once the dial has failed the
\* session is not running (its start was cancelled or never completed) and
\* no speech and no tool invocation takes place on the call.
C16_DialFailureStopsSession ==
    dial = "failed"
        => /\ session # "started"
           /\ current_speech = "None"
           /\ results = <<>>

\* ------------------------------------------------------------------ C17
\* C17 (room release on failure): when entrypoint has finished after a failed
\* dial, the call's room has been deleted.
C17_RoomReleasedOnFailure ==
    (pc = "done" /\ dial = "failed") => room = "deleted"

\* ------------------------------------------------------------------ C18
\* C18 (participant-scoped transfer): every transfer request sent to the
\* provider names the bound participant's identity, the room and the
\* destination.
C18_ParticipantScopedTransfer ==
    \A i \in 1..Len(effects) :
        (effects[i].kind = "api" /\ effects[i].name = "transfer_sip_participant")
            => {"participant_identity", "room_name", "transfer_to"}
                    \subseteq effects[i].data

\* ------------------------------------------------------------------ C19
\* C19 (transcript flush): at most one save_transcript is ever registered,
\* and it is registered before entrypoint connects or dials; when the job
\* has shut down, whatever ended the call, save_transcript has run exactly
\* once and has saved the transcript or reported the failure it caught as a
\* warning.
C19_TranscriptFlush ==
    /\ Len(shutdown_callbacks) <= 1
    /\ pc \notin {"add_shutdown_callback", "setup_transcript"}
          => Len(shutdown_callbacks) = 1
    /\ job = "shut_down" => Len(transcripts) = 1
    /\ \A i \in 1..Len(transcripts) : transcripts[i] \in {"saved", "warning"}

\* ------------------------------------------------------------------ C20
\* C20 (rendezvous on success): a participant is bound to the agent only in
\* a step taken when the dial was answered, session.start had completed and
\* the participant had joined; on a call whose dial failed or whose
\* entrypoint raised, none is ever bound.
C20_RendezvousOnSuccess ==
    [][/\ client' # client
            => /\ client = "None"
               /\ dial = "answered"
               /\ session = "started"
               /\ participant_joined
       /\ (dial' = "failed" \/ pc' = "raised") => client' = "None"]_vars

\* The participant has been bound on an answered call.
C20_Witness ==
    /\ client = "participant"
    /\ dial = "answered"
    /\ session = "started"
    /\ participant_joined

\* ------------------------------------------------------------------ C21
\* C21 (plan flags): on a verified call, a payment_plan invocation that
\* starts the plan sets payment_plan_started and leaves payment_plan_offered
\* as it was; one that offers the plan sets payment_plan_offered and leaves
\* payment_plan_started as it was; either way verified, debt_disputed and
\* hardship_claimed are unchanged.
C21_PlanFlags ==
    [][(verified /\ Completes("payment_plan") /\ Last(results').ret # "raised")
        => /\ Last(results').ret = "Payment plan started"
                => /\ payment_plan_started'
                   /\ payment_plan_offered' = payment_plan_offered
           /\ Last(results').ret = "Payment plan offered"
                => /\ payment_plan_offered'
                   /\ payment_plan_started' = payment_plan_started
           /\ verified' = verified
           /\ debt_disputed' = debt_disputed
           /\ hardship_claimed' = hardship_claimed]_vars

\* A verified call on which a plan was started and none was ever offered.
C21_Witness ==
    /\ Len(results) >= 2
    /\ results[1].op = "verify_customer_identity" /\ results[1].ret = "success"
    /\ results[2].op = "payment_plan" /\ results[2].ret = "Payment plan started"
    /\ payment_plan_started
    /\ ~payment_plan_offered

\* ------------------------------------------------------------------ C22
\* C22 (dispute recording): dispute_debt and send_validation are operations
\* of the agent, and whenever either has completed, verified or not, the
\* debt is recorded as disputed.
C22_DisputeRecording ==
    /\ {"dispute_debt", "send_validation"} \subseteq function_tools
    /\ \A i \in 1..Len(results) :
            results[i].op \in {"dispute_debt", "send_validation"}
                => debt_disputed

\* ------------------------------------------------------------------ C25
\* C25 (dial destination): for metadata that carries the number under
\* dial.to, entrypoint does not raise and, once past the dial request, has
\* dialled.
C25_DialDestination ==
    dial_key = "to"
        => /\ pc # "raised"
           /\ pc \in {"await_create_sip_participant", "await_session_started",
                      "wait_for_participant", "done"}
                 => dial # "not_requested"

\* ------------------------------------------------------------------ C27
\* C27 (plan message consistency): the number of months a payment plan's
\* result text states is the number of months its quoted monthly payment was
\* computed for.
C27_PlanMessageConsistency ==
    \A i \in 1..Len(results) :
        (results[i].op = "payment_plan" /\ results[i].ret # "raised")
            => results[i].quote[2] = results[i].args[1]

\* ------------------------------------------------------------------ C23
\* C23 (logging never blocks): in a step in which writing an event fails,
\* the failure is reported as a warning and the operation still completes:
\* it returns its result instead of raising.
C23_LoggingNeverBlocks ==
    [][(\E i \in 1..Len(Appended) : Appended[i].kind = "log_error")
        => /\ \E j \in 1..Len(Appended) : Appended[j].kind = "warning"
           /\ Len(results') = Len(results) + 1
           /\ Last(results').ret # "raised"]_vars

\* ------------------------------------------------------------------ C26
\* C26 (conversation-flow accounting): every iteration takes the next input
\* in order and records for it either the response to that input together
\* with that response's compliance check, or one error; so there are always
\* as many compliance checks as responses, responses and errors together
\* number the inputs taken, and test_conversation_flow returns only when
\* every input has been taken, whatever failed before.
C26_FlowAccounting ==
    [][/\ Len(agent_responses') = Len(compliance_checks')
       /\ Len(agent_responses') + Len(errors') = input_pos'
       /\ flow_pc' = "returned" => input_pos' = Len(user_inputs)
       /\ input_pos' # input_pos =>
            /\ input_pos' = input_pos + 1
            /\ \/ /\ agent_responses' = Append(agent_responses,
                          simulate_agent_response(user_inputs[input_pos'], scenario))
                  /\ compliance_checks' = Append(compliance_checks,
                          check_compliance(Last(agent_responses')))
                  /\ errors' = errors
               \/ /\ Len(errors') = Len(errors) + 1
                  /\ agent_responses' = agent_responses
                  /\ compliance_checks' = compliance_checks]_vars

\* test_conversation_flow has returned from three inputs of which the first
\* failed and the later two were answered.
C26_Witness ==
    /\ flow_pc = "returned"
    /\ Len(user_inputs) = 3
    /\ user_inputs[1] # user_inputs[2]
    /\ Len(errors) = 1
    /\ Len(agent_responses) = 2
    /\ agent_responses[1] = simulate_agent_response(user_inputs[2], scenario)
    /\ ~compliance_checks[1].no_threats

\* ------------------------------------------------------------------ C28
\* A "hangup" entry is the last entry of the transcript of a conversation
\* that has returned.
HangupIsFinal ==
    \A i \in 1..Len(transcript) :
        transcript[i].text = "hangup"
            => i = Len(transcript) /\ conv_pc = "returned"

\* At most turns replies of each role have been added.
RepliesWithinTurns ==
    \A r \in {"agent", "customer"} :
        Cardinality({i \in 1..Len(transcript) :
                        transcript[i].role = r /\ transcript[i].text = "reply"})
            <= turns

\* C28 (simulated conversation terminates): have_conversation eventually
\* returns; it adds at most turns replies of each role; and a hangup entry,
\* once added, is the last entry, after which nothing is generated or added.
C28_ConversationTerminates ==
    /\ <>(conv_pc = "returned")
    /\ [](HangupIsFinal /\ RepliesWithinTurns)

\* ------------------------------------------------------------------ C24
\* C24 (cross-call independence): a step that changes one call's instance
\* leaves the other call's instance (its metadata, hangup flag, room, events
\* and results) as it was, and what the operation returns and records is
\* decided by that call's own metadata: verification succeeds exactly on the
\* call's own last four characters, events carry the call's own account
\* number, and a hangup flag or a deleted room comes from the call's own
\* end_call.
C24_CrossCallIndependence ==
    [][\A c \in Calls :
          instances'[c] # instances[c]
            => /\ \A d \in Calls \ {c} : instances'[d] = instances[d]
               /\ Len(instances'[c].results) = Len(instances[c].results) + 1
               /\ LET outcome == Last(instances'[c].results)
                  IN  /\ outcome.op = "verify_customer_identity"
                           => (outcome.ret = "success"
                                <=> outcome.args
                                      = LastFour(instances[c].account_number))
                      /\ (instances'[c].hangup # instances[c].hangup
                            \/ instances'[c].room # instances[c].room)
                           => outcome.op = "end_call"
               /\ \A i \in 1..Len(instances'[c].events) :
                     instances'[c].events[i].account_number
                        = instances[c].account_number]_vars

\* The same digits were verified on both calls and succeeded on one only;
\* one test agent has hung up and the other has not.
C24_Witness ==
    /\ instances # <<>>
    /\ instances[1].class = "OutboundCallerTestAgent"
    /\ instances[2].class = "OutboundCallerTestAgent"
    /\ instances[1].hangup /\ ~instances[2].hangup
    /\ \E i \in 1..Len(instances[1].results), j \in 1..Len(instances[2].results) :
          /\ instances[1].results[i].op = "verify_customer_identity"
          /\ instances[2].results[j].op = "verify_customer_identity"
          /\ instances[1].results[i].args = instances[2].results[j].args
          /\ instances[1].results[i].ret = "success"
          /\ instances[2].results[j].ret = "Identity verification failed"

====
